---- MODULE Spec2Model ----
(***************************************************************************)
(* A model of dremio-module.py, the one-shot script that provisions a      *)
(* Dremio catalog: wait for the service, bootstrap and log in the admin,   *)
(* load the dataset configuration (credentials from Vault), register the   *)
(* S3 source, promote the folder, discover the columns, derive the policy  *)
(* SQL, and create the space, the virtual dataset and a new user.          *)
(*                                                                         *)
(* Strings the program searches, splits or assembles are sequences of      *)
(* one-character strings; strings it only passes along are TLA+ strings.   *)
(* A Python value that may raise is a record with a kind: "raise" (with    *)
(* the exception), "none", or "val".                                       *)
(***************************************************************************)
EXTENDS Integers, Sequences, FiniteSets, TLC

VARIABLES
    pc,                   \* position in the script (or in a harness)
    err,                  \* the uncaught exception once pc = "raised"
    count,                \* wait_dremio: count
    connects,             \* wait_dremio: connect attempts made
    connected,            \* wait_dremio: the last attempt succeeded
    log,                  \* HTTP requests sent and job-poll sleeps, in order
    response,             \* the catalog's answer to its last request
    auth_headers,         \* __main__: Authorization value from login
    content,              \* get_details_from_conf: the parsed YAML
    pos,                  \* get_details_from_conf: <<key index, entry index>>
    name,                 \* get_details_from_conf: <<>> unbound, <<n>> bound
    data_dict,            \* module global data_dict
    parse_conf,           \* __main__: <<>> or <<descriptor>>
    transformation_cols,  \* __main__ / get_policy_query argument
    creds,                \* __main__
    endpoint,             \* __main__
    path,                 \* __main__
    path_list,            \* __main__
    sql_path,             \* __main__ / get_policy_query argument
    job_id,               \* get_table_columns
    jobState,             \* get_table_columns: jobState of the last response
    polls,                \* get_table_columns: status requests made
    col_names,            \* __main__ / get_policy_query argument
    sql_vds,              \* __main__ / get_policy_query result
    vault_in,             \* credentials harness: the Vault's answers
    cred_out              \* credentials harness: the result

waitVars == <<count, connects, connected>>
confVars == <<content, pos, name, data_dict>>
mainVars == <<parse_conf, transformation_cols, creds, endpoint, path,
              path_list, sql_path, col_names, sql_vds>>
jobVars  == <<job_id, jobState, polls>>
credVars == <<vault_in, cred_out>>
vars == <<pc, err, waitVars, log, response, auth_headers, confVars, mainVars,
          jobVars, credVars>>

(***************************************************************************)
(* Bounds of the model.                                                    *)
(***************************************************************************)
MaxCols == 4        \* longest discovered column list of the policy harness
MaxProtected == 2   \* longest protected column list of the policy harness
MaxEntries == 2     \* most dataset entries under one top-level key
MaxPolls == 3       \* most job-status requests of one run

Seqs(S, n) == UNION {[1..k -> S] : k \in 0..n}

Range(s) == {s[i] : i \in 1..Len(s)}

(***************************************************************************)
(* Python string operations on sequences of characters.                    *)
(***************************************************************************)
\* s[i:i+len(sub)] == sub
IsAt(s, sub, i) ==
    /\ i + Len(sub) - 1 <= Len(s)
    /\ \A k \in 1..Len(sub) : s[i + k - 1] = sub[k]

\* s.find(sub), 1-based; 0 when sub does not occur
Find(s, sub) ==
    LET c == {j \in 1..(Len(s) + 1) : IsAt(s, sub, j)}
    IN  IF c = {} THEN 0 ELSE CHOOSE j \in c : \A k \in c : j <= k

\* sub in s
Contains(s, sub) == Find(s, sub) # 0

\* s.split(sep), sep non-empty
RECURSIVE Split(_, _)
Split(s, sep) ==
    LET j == Find(s, sep)
    IN  IF j = 0 THEN <<s>>
        ELSE <<SubSeq(s, 1, j - 1)>>
                 \o Split(SubSeq(s, j + Len(sep), Len(s)), sep)

\* sep.join(xs)
RECURSIVE Join(_, _)
Join(sep, xs) ==
    IF Len(xs) = 0 THEN <<>>
    ELSE IF Len(xs) = 1 THEN xs[1]
    ELSE xs[1] \o sep \o Join(sep, Tail(xs))

(***************************************************************************)
(* get_policy_query                                                        *)
(***************************************************************************)
\* [col for col in col_names if col not in transformation_cols]
RECURSIVE RequestColsMutOrder(_, _)
RequestColsMutOrder(tcols, cols) ==
    IF Len(cols) = 0 THEN <<>>
    ELSE IF \E i \in 1..Len(tcols) : tcols[i] = Head(cols)
         THEN RequestColsMutOrder(tcols, Tail(cols))
         ELSE Append(RequestColsMutOrder(tcols, Tail(cols)), Head(cols))

RECURSIVE request_cols(_, _)
request_cols(tcols, cols) ==
    IF Len(cols) = 0 THEN <<>>
    ELSE IF \E i \in 1..Len(tcols) : tcols[i] = Head(cols)
         THEN request_cols(tcols, Tail(cols))
         ELSE <<Head(cols)>> \o request_cols(tcols, Tail(cols))

\* for col in request_cols[1:]: requested_cols_string += ", " + col
RECURSIVE AddCols(_, _)
AddCols(requested_cols_string, rest) ==
    IF Len(rest) = 0 THEN requested_cols_string
    ELSE AddCols(requested_cols_string \o (<<",", " ">> \o Head(rest)),
                 Tail(rest))

KwSelect == <<"s","e","l","e","c","t"," ">>
KwFrom == <<" ","f","r","o","m"," ","\"">>

\* the mutants: return "" for a single allowed column; close the quote
GetPolicyQueryMutLen(tcols, spath, cols) ==
    LET rc == request_cols(tcols, cols)
    IN  IF Len(rc) <= 1 THEN <<>>
        ELSE KwSelect \o AddCols(rc[1], Tail(rc)) \o KwFrom \o spath

GetPolicyQueryMutQuote(tcols, spath, cols) ==
    LET rc == request_cols(tcols, cols)
    IN  IF Len(rc) < 1 THEN <<>>
        ELSE KwSelect \o AddCols(rc[1], Tail(rc)) \o KwFrom \o spath
                 \o <<"\"">>

get_policy_query(tcols, spath, cols) ==
    LET rc == request_cols(tcols, cols)
    IN  IF Len(rc) < 1 THEN <<>>
        ELSE KwSelect \o AddCols(rc[1], Tail(rc)) \o KwFrom \o spath

(***************************************************************************)
(* The Vault client: vault_jwt_auth, get_raw_secret_from_vault and         *)
(* get_credentials_from_vault. A response is its status code and the shape *)
(* of its body, or no response at all when the Vault cannot be reached.    *)
(***************************************************************************)
Raise(e) == [kind |-> "raise", err |-> e, val |-> <<>>]
None == [kind |-> "none", err |-> "", val |-> <<>>]
Val(v) == [kind |-> "val", err |-> "", val |-> v]

MissingCredentials == "ValueError: Vault credentials are missing"

\* dict.get(k, d)
Get(m, k, d) == IF k \in DOMAIN m THEN m[k] ELSE d

\* Bodies of the auth response: not JSON; {} ; {"auth": null};
\* {"auth": {}}; {"auth": {"client_token": ...}}
AuthBodies == {"notjson", "empty", "auth_null", "auth_empty", "auth_token"}
\* requests.post raises ConnectionError: the Vault cannot be reached
AuthUnreachable == [status |-> 0, body |-> "unreachable"]
AuthResponses ==
    [status : {200, 403}, body : AuthBodies] \cup {AuthUnreachable}

\* the values a secret may hold under a key
KeyValues(k) == IF k = "access_key" THEN {"", "AK"} ELSE {"", "SK"}
SecretMaps ==
    UNION {{m \in [d -> {"", "AK", "SK"}] : \A k \in d : m[k] \in KeyValues(k)} :
               d \in SUBSET {"access_key", "secret_key"}}
\* Bodies of the secret response: not JSON; no "data"; {"data": null};
\* {"data": {...}}
SecretBodies ==
    {[shape |-> "notjson", map |-> <<>>], [shape |-> "nodata", map |-> <<>>],
     [shape |-> "null", map |-> <<>>]}
        \cup {[shape |-> "map", map |-> m] : m \in SecretMaps}
\* requests.get raises ConnectionError: the Vault cannot be reached
SecretUnreachable ==
    [status |-> 0, body |-> [shape |-> "unreachable", map |-> <<>>]]
SecretResponses ==
    [status : {200, 404}, body : SecretBodies] \cup {SecretUnreachable}

ClientToken == "s.token"

vault_jwt_auth(auth) ==
    IF auth = AuthUnreachable THEN Raise("ConnectionError")
    ELSE IF auth.status = 200
    THEN IF auth.body = "notjson" THEN Raise("JSONDecodeError")
         ELSE Val(auth.body)
    ELSE IF auth.body = "notjson" THEN Raise("JSONDecodeError")
         ELSE None

\* the GET of the secret, once the client token is known
ReadSecret(secret) ==
    IF secret = SecretUnreachable THEN Raise("ConnectionError")
    ELSE IF secret.status = 200
    THEN IF secret.body.shape = "notjson" THEN Raise("JSONDecodeError")
         ELSE IF secret.body.shape = "nodata" THEN None
         ELSE IF secret.body.shape = "null" THEN None
         ELSE Val(secret.body.map)
    ELSE IF secret.body.shape = "notjson" THEN Raise("JSONDecodeError")
         ELSE None

get_raw_secret_from_vault(auth, secret) ==
    LET vault_auth_response == vault_jwt_auth(auth)
    IN  IF vault_auth_response.kind = "raise" THEN vault_auth_response
        ELSE IF vault_auth_response.kind = "none" THEN None
        ELSE IF vault_auth_response.val = "empty" THEN None
        ELSE IF vault_auth_response.val = "auth_null"
             THEN Raise("TypeError")
        ELSE IF vault_auth_response.val = "auth_empty" THEN None
        ELSE ReadSecret(secret)

\* the mutant: the values are not tested for emptiness
GetCredentialsMutNoEmptyTest(vin) ==
    IF ~vin.jwt_ok THEN Raise("FileNotFoundError")
    ELSE LET credentials == get_raw_secret_from_vault(vin.auth, vin.secret)
         IN  IF credentials.kind = "raise" THEN credentials
             ELSE IF credentials.kind = "none" THEN Raise(MissingCredentials)
             ELSE IF DOMAIN credentials.val = {}
                  THEN Raise(MissingCredentials)
             ELSE IF /\ "access_key" \in DOMAIN credentials.val
                     /\ "secret_key" \in DOMAIN credentials.val
                  THEN Val(<<credentials.val["access_key"],
                             credentials.val["secret_key"]>>)
             ELSE Raise(MissingCredentials)

\* the mutant: the pair is returned in the other order
GetCredentialsMutSwapped(vin) ==
    LET r == GetCredentialsMutNoEmptyTest(vin)
    IN  IF r.kind = "val" /\ r.val[1] # "" /\ r.val[2] # ""
        THEN Val(<<r.val[2], r.val[1]>>)
        ELSE IF r.kind = "val" THEN Raise(MissingCredentials) ELSE r

\* vin: whether the jwt file can be read, and the Vault's two responses
get_credentials_from_vault(vin) ==
    IF ~vin.jwt_ok THEN Raise("FileNotFoundError")
    ELSE LET credentials == get_raw_secret_from_vault(vin.auth, vin.secret)
         IN  IF credentials.kind = "raise" THEN credentials
             ELSE IF credentials.kind = "none" THEN Raise(MissingCredentials)
             ELSE IF DOMAIN credentials.val = {}
                  THEN Raise(MissingCredentials)
             ELSE IF /\ "access_key" \in DOMAIN credentials.val
                     /\ "secret_key" \in DOMAIN credentials.val
                     /\ credentials.val["access_key"] # ""
                     /\ credentials.val["secret_key"] # ""
                  THEN Val(<<credentials.val["access_key"],
                             credentials.val["secret_key"]>>)
             ELSE Raise(MissingCredentials)

\* the requests the Vault client sends on the way
VaultRequests(vault_credentials, vin) ==
    LET vault_address ==
            Get(vault_credentials, "address", "https://localhost:8200")
        secret_path ==
            Get(vault_credentials, "secretPath", "/v1/secret/data/cred")
        vault_auth ==
            Get(vault_credentials, "authPath", "/v1/auth/kubernetes/login")
        role == Get(vault_credentials, "role", "demo")
        login == [kind |-> "vault_auth", url |-> vault_address \o vault_auth,
                  auth |-> "", body |-> role]
        read == [kind |-> "vault_secret",
                 url |-> vault_address \o secret_path,
                 auth |-> ClientToken, body |-> ""]
    IN  IF ~vin.jwt_ok THEN <<>>
        ELSE IF vin.auth.status = 200 /\ vin.auth.body = "auth_token"
             THEN <<login, read>>
        ELSE <<login>>

VaultInputs ==
    [jwt_ok : BOOLEAN, auth : AuthResponses, secret : SecretResponses]

\* what a call can come to: its result and the requests it has sent
VaultOutcomes(vault_credentials) ==
    {[result |-> get_credentials_from_vault(vin),
      requests |-> VaultRequests(vault_credentials, vin)] :
         vin \in VaultInputs}

(***************************************************************************)
(* The policy harness: the arguments are drawn, get_policy_query applied.  *)
(***************************************************************************)
ColId == <<"i","d">>
ColName == <<"n","a","m","e">>
ColSsn == <<"s","s","n">>
ColSalary == <<"s","a","l","a","r","y">>
ColNames == {ColId, ColName, ColSsn, ColSalary}

PathSrcT == <<"s","r","c","\"",".","\"","t">>
SqlPaths == {PathSrcT, <<"t","\"">>}

\* the catalog has not been asked anything yet
NoResponse == [status |-> 0, text |-> "none"]

IdleWait == count = 0 /\ connects = 0 /\ connected = FALSE
IdleConf == content = <<>> /\ pos = <<1, 1>> /\ name = <<>> /\ data_dict = <<>>
IdleMain ==
    /\ parse_conf = <<>> /\ creds = <<>> /\ endpoint = <<>> /\ path = <<>>
    /\ path_list = <<>>
IdleJob == job_id = "" /\ jobState = "" /\ polls = 0
IdleCred == vault_in = <<>> /\ cred_out = <<>>

PolicyInit ==
    /\ pc = "policy_call" /\ err = ""
    /\ IdleWait /\ IdleConf /\ IdleMain /\ IdleJob /\ IdleCred
    /\ log = <<>> /\ response = NoResponse /\ auth_headers = ""
    /\ transformation_cols \in Seqs(ColNames, MaxProtected)
    /\ col_names \in Seqs(ColNames, MaxCols)
    /\ sql_path \in SqlPaths
    /\ sql_vds = <<>>

PolicyApply ==
    /\ pc = "policy_call"
    /\ sql_vds' = get_policy_query(transformation_cols, sql_path, col_names)
    /\ pc' = "policy_ret"
    /\ UNCHANGED <<err, waitVars, log, response, auth_headers, confVars,
                   jobVars, credVars, parse_conf, transformation_cols, creds,
                   endpoint, path, path_list, sql_path, col_names>>

PolicyNext == PolicyApply

PolicySpec == PolicyInit /\ [][PolicyNext]_vars

(***************************************************************************)
(* The credentials harness: the Vault's answers are drawn,                 *)
(* get_credentials_from_vault applied.                                     *)
(***************************************************************************)
CredInit ==
    /\ pc = "cred_call" /\ err = ""
    /\ IdleWait /\ IdleConf /\ IdleMain /\ IdleJob
    /\ log = <<>> /\ response = NoResponse /\ auth_headers = ""
    /\ transformation_cols = <<>> /\ col_names = <<>> /\ sql_path = <<>>
    /\ sql_vds = <<>>
    /\ vault_in \in VaultInputs
    /\ cred_out = <<>>

CredApply ==
    /\ pc = "cred_call"
    /\ cred_out' = get_credentials_from_vault(vault_in)
    /\ log' = log \o VaultRequests(<<>>, vault_in)
    /\ pc' = "cred_ret"
    /\ UNCHANGED <<err, waitVars, response, auth_headers, confVars, mainVars,
                   jobVars, vault_in>>

CredNext == CredApply

CredSpec == CredInit /\ [][CredNext]_vars

(***************************************************************************)
(* The catalog client. An answer to a request is a status code and a text: *)
(* empty ("empty"), not JSON ("html") or a JSON object ("json"); or the    *)
(* connection fails and there is no answer. The client reads the text and  *)
(* never the status code.                                                  *)
(***************************************************************************)
\* requests raises ConnectionError
CatalogUnreachable == [status |-> 0, text |-> "connerr"]

HttpOutcomes ==
    [status : {200, 400}, text : {"empty", "html", "json"}]
        \cup {CatalogUnreachable}

\* json.loads(requests.get(...).text)
api_get(out) ==
    IF out = CatalogUnreachable THEN Raise("ConnectionError")
    ELSE IF out.text = "json" THEN Val("json")
    ELSE Raise("JSONDecodeError")

\* json.loads(text) if text else None
api_post(out) ==
    IF out = CatalogUnreachable THEN Raise("ConnectionError")
    ELSE IF out.text = "empty" THEN None
    ELSE IF out.text = "json" THEN Val("json")
    ELSE Raise("JSONDecodeError")

Req(k, u, a, b) == [kind |-> k, url |-> u, auth |-> a, body |-> b]

SleepSeconds == 10
Sleep == Req("sleep", "", "", SleepSeconds)

Fail(e) == pc' = "raised" /\ err' = e

(***************************************************************************)
(* wait_dremio                                                             *)
(***************************************************************************)
MaxAttempts == 30

\* the mutant: the loop test is count <= 30
WaitDremioMutOffByOne ==
    /\ pc = "wait"
    /\ \/ /\ count <= MaxAttempts
          /\ connects' = connects + 1
          /\ \/ /\ connected' = FALSE
                /\ count' = count + 1
                /\ pc' = "wait"
             \/ /\ connected' = TRUE
                /\ count' = count
                /\ pc' = "wait_ret"
       \/ /\ count > MaxAttempts
          /\ pc' = "wait_ret"
          /\ UNCHANGED <<count, connects, connected>>
    /\ UNCHANGED <<err, log, response, auth_headers, confVars, mainVars,
                   jobVars, credVars>>

WaitDremio ==
    /\ pc = "wait"
    /\ \/ /\ count < MaxAttempts
          /\ connects' = connects + 1
          /\ \/ \* connect raised: sleep(10); count += 1; continue
                /\ connected' = FALSE
                /\ count' = count + 1
                /\ pc' = "wait"
             \/ \* connected: break
                /\ connected' = TRUE
                /\ count' = count
                /\ pc' = "wait_ret"
       \/ /\ count >= MaxAttempts
          /\ pc' = "wait_ret"
          /\ UNCHANGED <<count, connects, connected>>
    /\ UNCHANGED <<err, log, response, auth_headers, confVars, mainVars,
                   jobVars, credVars>>

(***************************************************************************)
(* register_admin_user and login                                           *)
(***************************************************************************)
\* wait_dremio has returned; its frame is gone. The response is only logged.
RegisterAdminUser ==
    /\ pc = "wait_ret"
    /\ count' = 0 /\ connects' = 0 /\ connected' = FALSE
    /\ log' = Append(log, Req("bootstrap", "/apiv2/bootstrap/firstuser",
                              "_dremionull", "adminUser"))
    /\ \E out \in HttpOutcomes :
           /\ response' = out
           /\ IF out = CatalogUnreachable THEN Fail("ConnectionError")
              ELSE pc' = "login" /\ err' = err
    /\ UNCHANGED <<auth_headers, confVars, mainVars, jobVars, credVars>>

Tokens == {"t1", "t2"}

Login ==
    /\ pc = "login"
    /\ log' = Append(log, Req("login", "/apiv2/login", "", "adminUser"))
    /\ \E out \in HttpOutcomes :
           /\ response' = out
           /\ \/ /\ out = CatalogUnreachable
                 /\ Fail("ConnectionError")
                 /\ UNCHANGED auth_headers
              \/ \* json.loads(response.text)
                 /\ out # CatalogUnreachable /\ out.text # "json"
                 /\ Fail("JSONDecodeError")
                 /\ UNCHANGED auth_headers
              \/ \* data['token'] on a body without a token
                 /\ out.text = "json"
                 /\ Fail("KeyError")
                 /\ UNCHANGED auth_headers
              \/ /\ out.text = "json"
                 /\ \E token \in Tokens :
                        /\ auth_headers' = "_dremio" \o token
                        /\ pc' = "conf_open" /\ err' = err
    /\ UNCHANGED <<waitVars, confVars, mainVars, jobVars, credVars>>

(***************************************************************************)
(* get_details_from_conf                                                   *)
(***************************************************************************)
\* the decoded "transformations" field: not base64 of JSON ("bad"; the
\* decoding raises, binascii.Error or JSONDecodeError, one name here), an
\* empty list ("empty"), or a list whose first element names the
\* transformation and its columns ("ok")
Transformations(t, cols) == [shape |-> "ok", name |-> t, columns |-> cols]

EntryA ==
    [name |-> <<"n","s","/","a">>, format |-> "iceberg",
     endpoint_url |-> <<"h","t","t","p",":","/","/","s","3","a">>,
     vault_credentials |-> <<>>,
     path |-> <<"b","/","t">>,
     transformations |-> Transformations("Redact", <<ColSsn>>)]
EntryB ==
    [name |-> <<"n","s","/","b","/","x">>, format |-> "parquet",
     endpoint_url |-> <<"s","3","b">>,
     vault_credentials |->
         [k \in {"address", "role"} |->
              IF k = "address" THEN "http://vault:8200" ELSE "module"],
     path |-> <<"u">>,
     transformations |->
         Transformations("RemoveColumns", <<ColId, ColName>>)]
\* the local name of EntryA again, every other field different
EntryC ==
    [name |-> <<"m","/","a">>, format |-> "csv",
     endpoint_url |-> <<"h","t","t","p","s",":","/","/","s","3","c">>,
     vault_credentials |-> [k \in {"secretPath"} |-> "/v1/secret/c"],
     path |-> <<"c">>,
     transformations |-> Transformations("Mask", <<>>)]
\* a dataset id without "/"
EntryNoSlash == [EntryA EXCEPT !.name = <<"a">>]
\* "transformations" decodes to []
EntryNoTransformation ==
    [EntryB EXCEPT !.transformations =
         [shape |-> "empty", name |-> "", columns |-> <<>>]]
\* "transformations" is not base64 of JSON
EntryBadTransformation ==
    [EntryC EXCEPT !.transformations =
         [shape |-> "bad", name |-> "", columns |-> <<>>]]

DataEntries == {EntryA, EntryB, EntryC, EntryNoSlash, EntryNoTransformation,
                EntryBadTransformation}
EntryLists == Seqs(DataEntries, MaxEntries)

KeyData == <<"d","a","t","a">>
KeyApp == <<"a","p","p">>
KeyMetadata == <<"m","e","t","a","d","a","t","a">>

\* the parsed YAML: the top-level keys in order, each with its value
ConfContents ==
    {<<<<KeyData, es>>>> : es \in EntryLists}
        \cup {<<<<KeyApp, <<EntryB>>>>, <<KeyData, es>>>> : es \in EntryLists}
        \cup {<<<<KeyData, es>>, <<KeyMetadata, fs>>>> :
                  es \in EntryLists, fs \in {<<>>, <<EntryB>>}}

\* the entries the two nested loops visit, in order
RECURSIVE DataItems(_)
DataItems(c) ==
    IF Len(c) = 0 THEN <<>>
    ELSE IF Contains(c[1][1], KeyData) THEN c[1][2] \o DataItems(Tail(c))
    ELSE DataItems(Tail(c))

\* data_dict[name] = {...}
Descriptor(data, cr) ==
    [format |-> data.format, endpoint_url |-> data.endpoint_url,
     path |-> data.path, transformation |-> data.transformations.name,
     transformation_cols |-> data.transformations.columns, creds |-> cr]

\* the mutant: an entry already stored under the name is kept
StoreMutKeepFirst(dict, n, d) ==
    [k \in DOMAIN dict \cup {n} |-> IF k \in DOMAIN dict THEN dict[k] ELSE d]

Store(dict, n, d) ==
    [k \in DOMAIN dict \cup {n} |-> IF k = n THEN d ELSE dict[k]]

ConfOpen ==
    /\ pc = "conf_open"
    /\ \/ /\ Fail("FileNotFoundError")
          /\ UNCHANGED confVars
       \/ \E c \in ConfContents :
              /\ content' = c
              /\ pos' = 1
              /\ pc' = "conf_loop" /\ err' = err
              /\ UNCHANGED <<name, data_dict>>
    /\ UNCHANGED <<waitVars, log, response, auth_headers, mainVars, jobVars,
                   credVars>>

\* name = dataset_id.split("/")[1]
ConfBind(old, segs) == <<segs[2]>>

\* one pass of the inner loop body
ConfEntry ==
    /\ pc = "conf_loop"
    /\ pos <= Len(DataItems(content))
    /\ LET data == DataItems(content)[pos]
           segs == Split(data.name, <<"/">>)
       IN  IF Len(segs) < 2
           THEN /\ Fail("IndexError")
                /\ UNCHANGED <<log, pos, name, data_dict>>
           ELSE /\ name' = ConfBind(name, segs)
                /\ \E call \in VaultOutcomes(data.vault_credentials) :
                       LET cr == call.result
                       IN  /\ log' = log \o call.requests
                           /\ IF cr.kind = "raise"
                              THEN /\ Fail(cr.err)
                                   /\ UNCHANGED <<pos, data_dict>>
                              ELSE IF data.transformations.shape = "bad"
                              THEN /\ Fail("JSONDecodeError")
                                   /\ UNCHANGED <<pos, data_dict>>
                              ELSE IF data.transformations.shape = "empty"
                              THEN /\ Fail("IndexError")
                                   /\ UNCHANGED <<pos, data_dict>>
                              ELSE /\ data_dict' =
                                          Store(data_dict, name'[1],
                                                Descriptor(data, cr.val))
                                   /\ pos' = pos + 1
                                   /\ pc' = pc /\ err' = err
    /\ UNCHANGED <<waitVars, response, auth_headers, content, mainVars,
                   jobVars, credVars>>

\* return data_dict[name]
ConfReturn ==
    /\ pc = "conf_loop"
    /\ pos > Len(DataItems(content))
    /\ IF name = <<>>
       THEN Fail("UnboundLocalError") /\ UNCHANGED parse_conf
       ELSE /\ parse_conf' = <<data_dict[name[1]]>>
            /\ pc' = "conf_ret" /\ err' = err
    /\ UNCHANGED <<waitVars, log, response, auth_headers, confVars, jobVars,
                   credVars, transformation_cols, creds, endpoint, path,
                   path_list, sql_path, col_names, sql_vds>>

(***************************************************************************)
(* __main__ from the configuration on                                      *)
(***************************************************************************)
source_name == <<"s","a","m","p","l","e","-","i","c","e","b","e","r","g">>
SchemeSep == <<":","/","/">>

\* get_details_from_conf has returned; its locals are gone, the global
\* data_dict stays
Unpack ==
    /\ pc = "conf_ret"
    /\ transformation_cols' = parse_conf[1].transformation_cols
    /\ creds' = parse_conf[1].creds
    /\ endpoint' = IF Contains(parse_conf[1].endpoint_url, SchemeSep)
                   THEN Split(parse_conf[1].endpoint_url, SchemeSep)[2]
                   ELSE parse_conf[1].endpoint_url
    /\ path' = parse_conf[1].path
    /\ content' = <<>> /\ pos' = 1 /\ name' = <<>>
    /\ pc' = "source"
    /\ UNCHANGED <<err, waitVars, log, response, auth_headers, data_dict,
                   parse_conf, path_list, sql_path, col_names, sql_vds,
                   jobVars, credVars>>

\* the mutant: what api_post raises is caught and the script goes on
StepPostMutSwallow(from, to, req) ==
    /\ pc = from
    /\ log' = Append(log, req)
    /\ \E out \in HttpOutcomes :
           /\ response' = out
           /\ pc' = to /\ err' = err

\* a step that posts one request and goes on unless api_post raises
StepPost(from, to, req) ==
    /\ pc = from
    /\ log' = Append(log, req)
    /\ \E out \in HttpOutcomes :
           /\ response' = out
           /\ IF api_post(out).kind = "raise" THEN Fail(api_post(out).err)
              ELSE pc' = to /\ err' = err

\* a step that gets one request and goes on unless api_get raises
StepGet(from, to, req) ==
    /\ pc = from
    /\ log' = Append(log, req)
    /\ \E out \in HttpOutcomes :
           /\ response' = out
           /\ IF api_get(out).kind = "raise" THEN Fail(api_get(out).err)
              ELSE pc' = to /\ err' = err

create_s3_source ==
    /\ StepPost("source", "bypath",
            Req("source", "catalog", auth_headers,
                [accessKey |-> creds[1], accessSecret |-> creds[2],
                 endpoint |-> endpoint, name |-> source_name]))
    /\ UNCHANGED <<waitVars, auth_headers, confVars, mainVars, jobVars,
                   credVars>>

GetByPath ==
    /\ StepGet("bypath", "promote",
            Req("bypath",
                <<"c","a","t","a","l","o","g","/","b","y","-","p","a","t",
                  "h","/">> \o source_name \o <<"/">> \o path,
                auth_headers, ""))
    /\ UNCHANGED <<waitVars, auth_headers, confVars, mainVars, jobVars,
                   credVars>>

promote_folder ==
    LET pl == <<source_name>> \o Split(path, <<"/">>)
        promote_url == source_name \o <<"%","2","F">>
                           \o Join(<<"%","2","F">>, Tail(pl))
    IN  /\ StepPost("promote", "sql",
                Req("promote",
                    <<"c","a","t","a","l","o","g","/","d","r","e","m","i",
                      "o","%","3","A","%","2","F">> \o promote_url,
                    auth_headers, pl))
        /\ path_list' = IF pc' = "raised" THEN path_list ELSE pl
        /\ UNCHANGED <<waitVars, auth_headers, confVars, jobVars, credVars,
                       parse_conf, transformation_cols, creds, endpoint,
                       path, sql_path, col_names, sql_vds>>

(***************************************************************************)
(* get_table_columns                                                       *)
(***************************************************************************)
JobIds == {"j1"}
\* "None": the response holds no jobState
JobStates == {"RUNNING", "COMPLETED", "FAILED", "None"}
\* the column names of the results' schema
Schemas == {<<>>, <<ColSsn>>, <<ColId, ColSsn>>,
            <<ColId, ColName, ColSsn, ColSalary>>}

JobUrl == "job/" \o job_id

\* sql_path is built, the query posted, response.get("id") taken
SubmitSql ==
    /\ pc = "sql"
    /\ sql_path' = source_name \o <<"\"",".","\"">>
                       \o Join(<<"\"",".","\"">>, Tail(path_list))
                       \o <<"\"">>
    /\ log' = Append(log,
                     Req("sql", "sql", auth_headers,
                         <<"S","E","L","E","C","T"," ","*"," ","F","R","O",
                           "M"," ","\"">> \o sql_path'
                             \o <<"L","I","M","I","T"," ","0">>))
    /\ \E out \in HttpOutcomes :
           /\ response' = out
           /\ \/ \* api_post raises, or returns None: None.get("id")
                 /\ api_post(out).kind # "val"
                 /\ Fail(IF api_post(out).kind = "raise"
                         THEN api_post(out).err ELSE "AttributeError")
                 /\ UNCHANGED job_id
              \/ \* a JSON object without "id": "job/" + None
                 /\ api_post(out).kind = "val"
                 /\ Fail("TypeError")
                 /\ UNCHANGED job_id
              \/ /\ api_post(out).kind = "val"
                 /\ \E id \in JobIds :
                        /\ job_id' = id
                        /\ pc' = "job_first" /\ err' = err
    /\ UNCHANGED <<waitVars, auth_headers, confVars, jobState, polls,
                   credVars, parse_conf, transformation_cols, creds, endpoint,
                   path, path_list, col_names, sql_vds>>

\* the status request before the loop
JobFirst ==
    /\ pc = "job_first"
    /\ log' = Append(log, Req("job", JobUrl, auth_headers, ""))
    /\ polls' = polls + 1
    /\ \E out \in HttpOutcomes :
           /\ response' = out
           /\ \/ /\ api_get(out).kind = "raise"
                 /\ Fail(api_get(out).err)
                 /\ UNCHANGED jobState
              \/ /\ api_get(out).kind = "val"
                 /\ \E s \in JobStates :
                        /\ jobState' = s
                        /\ pc' = "job_loop" /\ err' = err
    /\ UNCHANGED <<waitVars, auth_headers, confVars, mainVars, job_id,
                   credVars>>

\* the loop body once the response is parsed: api_get, then sleep(10)
JobPoll(req) == <<req, Sleep>>

\* one pass of the while loop
JobLoop ==
    /\ pc = "job_loop"
    /\ jobState # "COMPLETED"
    /\ polls < MaxPolls
    /\ polls' = polls + 1
    /\ \E out \in HttpOutcomes :
           /\ response' = out
           /\ \/ /\ api_get(out).kind = "raise"
                 /\ Fail(api_get(out).err)
                 /\ log' = Append(log, Req("job", JobUrl, auth_headers, ""))
                 /\ UNCHANGED jobState
              \/ /\ api_get(out).kind = "val"
                 /\ \E s \in JobStates :
                        /\ jobState' = s
                        /\ log' = log \o JobPoll(Req("job", JobUrl,
                                                     auth_headers, ""))
                        /\ pc' = "job_loop" /\ err' = err
    /\ UNCHANGED <<waitVars, auth_headers, confVars, mainVars, job_id,
                   credVars>>

\* the loop is left: the results are fetched and the names taken
JobResults ==
    /\ pc = "job_loop"
    /\ jobState = "COMPLETED"
    /\ log' = Append(log, Req("results", JobUrl \o "/results", auth_headers,
                              ""))
    /\ \E out \in HttpOutcomes :
           /\ response' = out
           /\ \/ /\ api_get(out).kind = "raise"
                 /\ Fail(api_get(out).err)
                 /\ UNCHANGED col_names
              \/ \* a JSON object without "schema"
                 /\ api_get(out).kind = "val"
                 /\ Fail("TypeError")
                 /\ UNCHANGED col_names
              \/ /\ api_get(out).kind = "val"
                 /\ \E schema \in Schemas :
                        /\ col_names' = schema
                        /\ pc' = "policy" /\ err' = err
    /\ UNCHANGED <<waitVars, auth_headers, confVars, jobVars, credVars,
                   parse_conf, transformation_cols, creds, endpoint, path,
                   path_list, sql_path, sql_vds>>

(***************************************************************************)
(* The policy SQL, the space, the virtual dataset and the new user         *)
(***************************************************************************)
\* the mutant: an empty policy SQL stops the run
DerivePolicyMutChecked ==
    /\ pc = "policy"
    /\ sql_vds' = get_policy_query(transformation_cols, sql_path, col_names)
    /\ IF sql_vds' = <<>> THEN Fail("ValueError: empty policy")
       ELSE pc' = "space" /\ err' = err
    /\ UNCHANGED <<waitVars, log, response, auth_headers, confVars, jobVars,
                   credVars, parse_conf, transformation_cols, creds, endpoint,
                   path, path_list, sql_path, col_names>>

DerivePolicy ==
    /\ pc = "policy"
    /\ sql_vds' = get_policy_query(transformation_cols, sql_path, col_names)
    /\ pc' = "space"
    /\ UNCHANGED <<err, waitVars, log, response, auth_headers, confVars,
                   jobVars, credVars, parse_conf, transformation_cols, creds,
                   endpoint, path, path_list, sql_path, col_names>>

CreateSpace ==
    /\ StepPost("space", "vds",
            Req("space", "catalog", auth_headers, "Space-api"))
    /\ UNCHANGED <<waitVars, auth_headers, confVars, mainVars, jobVars,
                   credVars>>

create_VDS ==
    /\ StepPost("vds", "user",
            Req("vds", "catalog", auth_headers,
                [path |-> <<"Space-api", "sample-iceberg-vds">>,
                 sql |-> sql_vds, sqlContext |-> path_list]))
    /\ UNCHANGED <<waitVars, auth_headers, confVars, mainVars, jobVars,
                   credVars>>

create_new_user ==
    /\ StepPost("user", "done",
            Req("user", "user", auth_headers, "newUser"))
    /\ UNCHANGED <<waitVars, auth_headers, confVars, mainVars, jobVars,
                   credVars>>

(***************************************************************************)
(* The script                                                              *)
(***************************************************************************)
Init ==
    /\ pc = "wait" /\ err = ""
    /\ IdleWait /\ IdleConf /\ IdleMain /\ IdleJob /\ IdleCred
    /\ log = <<>> /\ response = NoResponse /\ auth_headers = ""
    /\ transformation_cols = <<>> /\ col_names = <<>> /\ sql_path = <<>>
    /\ sql_vds = <<>>

Next ==
    \/ WaitDremio
    \/ RegisterAdminUser
    \/ Login
    \/ ConfOpen
    \/ ConfEntry
    \/ ConfReturn
    \/ Unpack
    \/ create_s3_source
    \/ GetByPath
    \/ promote_folder
    \/ SubmitSql
    \/ JobFirst
    \/ JobLoop
    \/ JobResults
    \/ DerivePolicy
    \/ CreateSpace
    \/ create_VDS
    \/ create_new_user

Spec == Init /\ [][Next]_vars

\* a blocking connect returns or raises, and the loop goes on
LiveSpec == Init /\ [][Next]_vars /\ WF_vars(WaitDremio)

(***************************************************************************)
(* Claims about get_policy_query.                                          *)
(***************************************************************************)
\* allCols without the names that occur in protectedCols, in allCols' order
Allowed(tcols, cols) == SelectSeq(cols, LAMBDA c : c \notin Range(tcols))

\* the projected column list of a query: what stands between the leading
\* "select " and the first ' from "', split at ", "
ColumnList(sql) ==
    IF sql = <<>> THEN <<>>
    ELSE LET j == Find(sql, KwFrom)
         IN  Split(SubSeq(sql, Len(KwSelect) + 1, j - 1), <<",", " ">>)

\* C1: the column list of get_policy_query's output is allCols with every
\* name that occurs in protectedCols removed, in allCols' order, so no
\* protected name is ever projected.
C1_ColumnsFiltered ==
    pc = "policy_ret" =>
        /\ ColumnList(sql_vds) = Allowed(transformation_cols, col_names)
        /\ \A i \in 1..Len(ColumnList(sql_vds)) :
               ColumnList(sql_vds)[i] \notin Range(transformation_cols)

C1_Witness ==
    /\ pc = "policy_ret"
    /\ col_names = <<ColSsn, ColId, ColSalary, ColName>>
    /\ transformation_cols = <<ColSalary, ColSsn>>
    /\ ColumnList(sql_vds) = <<ColId, ColName>>

\* C2: get_policy_query returns the empty string exactly when every name of
\* allCols occurs in protectedCols (allCols empty included), and a non-empty
\* string when some name of allCols is not protected.
C2_EmptyIffAllProtected ==
    pc = "policy_ret" =>
        (sql_vds = <<>>
            <=> \A i \in 1..Len(col_names) :
                    col_names[i] \in Range(transformation_cols))

C2_Witness ==
    /\ pc = "policy_ret"
    /\ col_names = <<ColSsn, ColSalary, ColSsn>>
    /\ transformation_cols = <<ColSalary, ColSsn>>
    /\ sql_vds = <<>>

\* C6 as claimed: with a non-empty allowed list the result is "SELECT ",
\* the allowed columns joined by ", ", then ' FROM "' and the path.
C6_UpperCaseKeywords ==
    (pc = "policy_ret" /\ Allowed(transformation_cols, col_names) # <<>>) =>
        sql_vds = <<"S","E","L","E","C","T"," ">>
                      \o Join(<<",", " ">>,
                              Allowed(transformation_cols, col_names))
                      \o <<" ","F","R","O","M"," ","\"">> \o sql_path

\* C6 amended: the keywords are lower case. With a non-empty allowed list
\* the result is "select ", the allowed columns joined by ", ", then
\* ' from "' and the path, with nothing after the path.
C6_LowerCaseKeywords ==
    (pc = "policy_ret" /\ Allowed(transformation_cols, col_names) # <<>>) =>
        sql_vds = <<"s","e","l","e","c","t"," ">>
                      \o Join(<<",", " ">>,
                              Allowed(transformation_cols, col_names))
                      \o <<" ","f","r","o","m"," ","\"">> \o sql_path

\* allCols=[id,name,ssn,salary], protectedCols=[ssn,salary], path src"."t
C6_Witness ==
    /\ pc = "policy_ret"
    /\ col_names = <<ColId, ColName, ColSsn, ColSalary>>
    /\ transformation_cols = <<ColSsn, ColSalary>>
    /\ sql_path = PathSrcT
    /\ sql_vds = <<"s","e","l","e","c","t"," ","i","d",","," ","n","a","m",
                   "e"," ","f","r","o","m"," ","\"","s","r","c","\"",".",
                   "\"","t">>
(***************************************************************************)
(* Claims about get_credentials_from_vault.                                *)
(***************************************************************************)
\* what get_raw_secret_from_vault yielded in the harness
SecretYield == get_raw_secret_from_vault(vault_in.auth, vault_in.secret)

BothKeysNonEmpty(m) ==
    /\ "access_key" \in DOMAIN m /\ m["access_key"] # ""
    /\ "secret_key" \in DOMAIN m /\ m["secret_key"] # ""

\* C3: get_credentials_from_vault returns <<access_key, secret_key>> if and
\* only if get_raw_secret_from_vault yielded a map holding both keys with
\* non-empty values; when it yielded none (a non-200 auth answer such as
\* 403 included), an empty map, a map lacking a key or a map with an empty
\* value, the call raises the missing-credentials error.
C3_PairIffBothKeys ==
    pc = "cred_ret" =>
        /\ cred_out.kind = "val" <=>
               /\ vault_in.jwt_ok
               /\ SecretYield.kind = "val"
               /\ BothKeysNonEmpty(SecretYield.val)
        /\ cred_out.kind = "val" =>
               cred_out.val = <<SecretYield.val["access_key"],
                                SecretYield.val["secret_key"]>>
        /\ (/\ vault_in.jwt_ok
            /\ \/ SecretYield.kind = "none"
               \/ /\ SecretYield.kind = "val"
                  /\ ~BothKeysNonEmpty(SecretYield.val))
               => cred_out = Raise(MissingCredentials)
        /\ (vault_in.jwt_ok /\ vault_in.auth = [status |-> 403,
                                                body |-> "empty"])
               => SecretYield = None /\ cred_out = Raise(MissingCredentials)

C3_Witness ==
    /\ pc = "cred_ret"
    /\ vault_in.jwt_ok
    /\ vault_in.auth = [status |-> 200, body |-> "auth_token"]
    /\ vault_in.secret.status = 200
    /\ vault_in.secret.body.shape = "map"
    /\ vault_in.secret.body.map = [k \in {"access_key", "secret_key"} |->
                                       IF k = "access_key" THEN "AK" ELSE "SK"]
    /\ cred_out = Val(<<"AK", "SK">>)
(***************************************************************************)
(* Claims about the script.                                                *)
(***************************************************************************)
LogIndex == 1..Len(log)

\* the requests that follow the loading of the configuration
LaterKinds == {"source", "bypath", "promote", "sql", "job", "results",
               "space", "vds", "user"}

\* C4: a run whose credential resolution does not yield an access key and
\* a secret key, both non-empty, stops with the missing-credentials error
\* and sends none of the later requests; a source registration is only ever
\* sent with a non-empty access key and a non-empty secret key.
C4_NoProvisioningWithoutCredentials ==
    /\ \A i \in LogIndex :
           log[i].kind = "source" =>
               log[i].body.accessKey # "" /\ log[i].body.accessSecret # ""
    /\ (pc = "raised" /\ err = MissingCredentials) =>
           \A i \in LogIndex : log[i].kind \notin LaterKinds
    /\ pc \in {"conf_ret", "source"} \cup
              {"bypath", "promote", "sql", "job_first", "job_loop", "policy",
               "space", "vds", "user", "done"} =>
           /\ Len(parse_conf[1].creds) = 2
           /\ parse_conf[1].creds[1] # "" /\ parse_conf[1].creds[2] # ""

C4_Witness ==
    /\ pc = "raised" /\ err = MissingCredentials
    /\ Len(log) >= 4
    /\ log[Len(log)].kind = "vault_secret"
    /\ DOMAIN data_dict # {}

\* the attempts of wait_dremio, in the loop and at its return
C5_WaitSafe ==
    /\ pc = "wait" => connects = count /\ count <= 30 /\ ~connected
    /\ pc = "wait_ret" =>
           /\ err = ""
           /\ connects <= 30
           /\ connected => connects = count + 1
           /\ ~connected => connects = 30 /\ count = 30
    /\ connected => pc = "wait_ret"

\* C5: wait_dremio ends. When every connect fails it has made exactly 30
\* attempts and returns without raising; when a connect succeeds it returns
\* right after that attempt, having made at most 30.
C5_WaitTerminates == []C5_WaitSafe /\ <>(pc = "wait_ret")

C5_Witness == pc = "wait_ret" /\ ~connected /\ connects = 30

\* the endpoint __main__ uses: what follows "://", if that occurs
Stripped(e) == IF Contains(e, SchemeSep) THEN Split(e, SchemeSep)[2] ELSE e

\* C7: of several dataset entries get_details_from_conf returns the
\* descriptor of the last one parsed, with no field of an earlier entry, and
\* that descriptor is the one the script acts on.
C7_LastEntryOnly ==
    /\ pc = "conf_ret" =>
           LET items == DataItems(content)
               last == items[Len(items)]
           IN  /\ parse_conf[1] = Descriptor(last, parse_conf[1].creds)
               /\ Split(last.name, <<"/">>)[2] \in DOMAIN data_dict
               /\ parse_conf[1] = data_dict[Split(last.name, <<"/">>)[2]]
    /\ pc \in {"source", "bypath", "promote", "sql", "job_first", "job_loop",
               "policy", "space", "vds", "user", "done"} =>
           /\ transformation_cols = parse_conf[1].transformation_cols
           /\ creds = parse_conf[1].creds
           /\ endpoint = Stripped(parse_conf[1].endpoint_url)
           /\ path = parse_conf[1].path
           /\ \A i \in LogIndex :
                  log[i].kind = "source" =>
                      /\ log[i].body.endpoint =
                             Stripped(parse_conf[1].endpoint_url)
                      /\ log[i].body.accessKey = parse_conf[1].creds[1]
                      /\ log[i].body.accessSecret = parse_conf[1].creds[2]

C7_Witness ==
    /\ pc = "conf_ret"
    /\ content = <<<<KeyData, <<EntryA, EntryB>>>>>>
    /\ parse_conf[1].path = EntryB.path
    /\ parse_conf[1].transformation_cols = <<ColId, ColName>>
    /\ DOMAIN data_dict = {<<"a">>, <<"b">>}

\* the place of each request in the script
Rank(k) ==
    CASE k = "bootstrap" -> 1
      [] k = "login" -> 2
      [] k \in {"vault_auth", "vault_secret"} -> 3
      [] k = "source" -> 4
      [] k = "bypath" -> 5
      [] k = "promote" -> 6
      [] k = "sql" -> 7
      [] k = "job" -> 8
      [] k = "results" -> 9
      [] k = "space" -> 10
      [] k = "vds" -> 11
      [] k = "user" -> 12

Requests == SelectSeq(log, LAMBDA r : r.kind # "sleep")
AllKinds == {"bootstrap", "login", "vault_auth", "vault_secret"}
                \cup LaterKinds
\* the last request sent when the script stands at a position
LastKindAt ==
    [p \in {"login", "conf_open", "bypath", "promote", "sql", "job_first",
            "job_loop", "policy", "space", "vds", "user", "done"} |->
        CASE p = "login" -> "bootstrap"
          [] p = "conf_open" -> "login"
          [] p = "bypath" -> "source"
          [] p = "promote" -> "bypath"
          [] p = "sql" -> "promote"
          [] p = "job_first" -> "sql"
          [] p = "job_loop" -> "job"
          [] p \in {"policy", "space"} -> "results"
          [] p = "vds" -> "space"
          [] p = "user" -> "vds"
          [] p = "done" -> "user"]

C8_Order ==
    LET reqs == Requests
        n == Len(reqs)
    IN  \* one fixed order, nothing repeated but the polls (and the two
        \* Vault requests, once per entry of the configuration)
        /\ \A i, j \in 1..n :
               i < j =>
                   /\ Rank(reqs[i].kind) <= Rank(reqs[j].kind)
                   /\ reqs[i].kind = reqs[j].kind =>
                          reqs[i].kind \in {"job", "vault_auth",
                                            "vault_secret"}
        \* nothing skipped
        /\ \A j \in 1..n : \A k \in AllKinds :
               Rank(k) < Rank(reqs[j].kind) =>
                   \E i \in 1..(j - 1) : reqs[i].kind = k
        \* the readiness wait comes first, and the script stands where its
        \* last request says
        /\ pc \in {"wait", "wait_ret"} => log = <<>>
        /\ pc \in DOMAIN LastKindAt =>
               n > 0 /\ reqs[n].kind = LastKindAt[pc]
        \* the headers of the one login
        /\ \A i \in 1..n :
               reqs[i].kind \in LaterKinds =>
                   /\ reqs[i].auth = auth_headers
                   /\ \E t \in Tokens : auth_headers = "_dremio" \o t

\* the catalog requests sent with POST
PostKinds == {"source", "promote", "sql", "space", "vds", "user"}
\* the catalog requests whose answer is logged and not looked into
OnlyLogged == {"source", "bypath", "promote", "space", "vds", "user"}

\* the answer to the last request, of kind k, makes its client call raise:
\* there is none; or its text is not JSON; or it is empty and was asked for
\* with GET or by login (the bootstrap's text is never decoded)
Undecodable(k) ==
    \/ response = CatalogUnreachable
    \/ k # "bootstrap" /\ response.text = "html"
    \/ k \notin PostKinds \cup {"bootstrap"} /\ response.text = "empty"

\* a step raises exactly when the answer cannot be decoded (or, where the
\* script reads a field of the answer, when that fails): the status code
\* plays no part, and after an answer that decodes the next step is due
C8_RaiseIffUndecodable ==
    LET reqs == Requests
        n == Len(reqs)
    IN  (n > 0 /\ reqs[n].kind \notin {"vault_auth", "vault_secret"}) =>
            /\ Undecodable(reqs[n].kind) => pc = "raised"
            /\ (reqs[n].kind \in OnlyLogged \cup {"bootstrap"}
                   /\ ~Undecodable(reqs[n].kind)) =>
                   /\ response.status \in {200, 400}
                   /\ pc \in DOMAIN LastKindAt
                   /\ LastKindAt[pc] = reqs[n].kind

\* once the script has raised nothing more is sent, and the log only grows
C8_RaisedIsFinal ==
    /\ [][pc = "raised" => (pc' = "raised" /\ log' = log)]_vars
    /\ [][log' # log => (Len(log') > Len(log)
                           /\ SubSeq(log', 1, Len(log)) = log)]_vars

\* a step has failed: it raised, or the readiness wait ran out of attempts,
\* or the catalog answered the last request with an error status
StepFailed ==
    \/ pc = "raised"
    \/ pc = "wait_ret" /\ ~connected
    \/ response.status >= 400

\* C8 as claimed: the fixed order, and a failure at any step prevents all
\* later steps, so that after a failed step no request is sent.
C8_FailurePreventsLaterSteps ==
    /\ []C8_Order
    /\ [][StepFailed => log' = log]_vars

\* C8: the steps are issued in one fixed order, none skipped, repeated or
\* reordered (only polls repeat); every authenticated request follows the
\* login and carries its headers; the virtual dataset is created after the
\* space and after the columns are known; a step that raises prevents all
\* later steps, and a step raises when its answer cannot be decoded, whatever
\* the status code: an answer with an error status that decodes is followed
\* by the next step.
C8_FixedOrder ==
    /\ []C8_Order
    /\ []C8_RaiseIffUndecodable
    /\ C8_RaisedIsFinal

\* a whole run in which the catalog rejected the last request
C8_Witness ==
    /\ pc = "done"
    /\ Len(Requests) >= 14
    /\ \E i \in LogIndex : log[i].kind = "sleep"
    /\ response.status = 400

\* C8 as claimed, for the readiness wait alone: once it has run out of
\* attempts nothing is sent
C8_WaitRanOut == [][(pc = "wait_ret" /\ ~connected) => log' = log]_vars

\* C9 as claimed: the job status is asked every 10 time units until it is
\* "COMPLETED", so between two status requests the script sleeps 10, and
\* the results are asked only after a "COMPLETED" answer.
C9_PollEveryTen ==
    /\ \A i \in LogIndex :
           (i < Len(log) /\ log[i].kind = "job") =>
               log[i + 1].kind # "job"
    /\ \A i \in LogIndex :
           log[i].kind = "results" => jobState = "COMPLETED"

\* the rest of C9, which the code keeps: every sleep lasts 10, follows a
\* status request, and the results are asked only after "COMPLETED"
C9_ResultsOnlyAfterCompleted ==
    /\ \A i \in LogIndex :
           log[i].kind = "sleep" =>
               log[i].body = 10 /\ i > 1 /\ log[i - 1].kind = "job"
    /\ \A i \in LogIndex :
           log[i].kind = "results" => jobState = "COMPLETED"
    /\ pc \in {"policy", "space", "vds", "user", "done"} =>
           jobState = "COMPLETED"

AllProtected ==
    /\ col_names # <<>>
    /\ \A i \in 1..Len(col_names) :
           col_names[i] \in Range(transformation_cols)

C10_Requests ==
    /\ \A i \in LogIndex :
           log[i].kind = "vds" => log[i].body.sql = sql_vds
    /\ pc \in {"space", "vds", "user", "done"} =>
           (sql_vds = <<>> <=> Allowed(transformation_cols, col_names) = <<>>)
    /\ pc = "done" =>
           /\ Len(log) >= 3
           /\ log[Len(log) - 2].kind = "space"
           /\ log[Len(log) - 1].kind = "vds"
           /\ log[Len(log)].kind = "user"

\* C10: when every discovered column is protected the policy SQL is empty,
\* nothing checks it, and the space, the virtual dataset (with the empty
\* SQL) and the new user are requested all the same.
C10_EmptySqlUnchecked ==
    /\ []C10_Requests
    /\ [][pc = "policy" => pc' = "space"]_vars

C10_Witness ==
    /\ pc = "done"
    /\ AllProtected
    /\ sql_vds = <<>>
    /\ log[Len(log) - 1].kind = "vds"
    /\ log[Len(log) - 1].body.sql = <<>>
====
